---- MODULE Spec2Model ----
(***************************************************************************)
(* A model of the pod sidecar (sidecar/handler.py): POST /run admits a job *)
(* on the asyncio event loop, execute_job drives it on an executor thread  *)
(* through cleanup, liveness check, staging, stream connect, submission,   *)
(* event monitoring with reconnect, history lookup and output collection,  *)
(* and run_job then delivers the terminal result with fire_callback.       *)
(*                                                                         *)
(* Every blocking I/O call of the source is one step; what the engine, the *)
(* network and the callback receiver answer is chosen at that step.  A     *)
(* field of the (immutable) request is drawn when the code first reads it. *)
(***************************************************************************)
EXTENDS Integers, Sequences, FiniteSets, TLC

\* ------------------------------------------------------------------ bounds

\* Messages the engine writes to one job's stream.
MaxEvents == 2
\* Times the stream connection of one job is lost.
MaxDrops == 2

\* --------------------------------------------------------- program constants

\* WEBSOCKET_RECONNECT_ATTEMPTS: int(os.environ.get(..., "5")), its default.
WEBSOCKET_RECONNECT_ATTEMPTS == 5
\* for attempt in range(3) of fire_callback.
CallbackAttempts == 3
\* r.status_code < 300 of fire_callback: the first status that is not a success.
ErrorThreshold == 300

Jobs == 1..2

\* pod_api_mock: the pods a client creates, and the value of a registry
\* lookup that finds no record (_pods.pop(pod_id, None)).
PodIds == 1..2
PodRecord(cid, status) == [present |-> TRUE, containerId |-> cid, desiredStatus |-> status]
NoRecord == [present |-> FALSE, containerId |-> "None", desiredStatus |-> ""]

\* Python's None, and a key that a mapping does not hold.
NoneV == "None"
Absent == "absent"

\* The execution handle the engine gives job j, and a handle of some other job.
PromptOf(j) == IF j = 1 THEN "P1" ELSE "P2"
OtherPrompt(j) == IF j = 1 THEN "P2" ELSE "P1"

\* ------------------------------------------------------------ stream frames

\* What ws.recv() returns: a binary frame (bytes) or a text frame (str).  A
\* text frame is described by what json.loads makes of it: "invalid" (a
\* JSONDecodeError), "list" (a JSON value that is no object) or "object";
\* an object by its "type" and by its "data" ("mapping", "null" for JSON
\* null, "absent" for a missing key) and the keys of the data mapping.
Frame(fr, js, ty, da, node, pid) ==
    [frame |-> fr, json |-> js, type |-> ty, data |-> da, node |-> node,
     prompt_id |-> pid, node_id |-> "3", node_type |-> "KSampler",
     exception_message |-> "OOM"]

BinaryFrame == Frame("binary", "invalid", Absent, Absent, Absent, Absent)
BadJsonFrame == Frame("text", "invalid", Absent, Absent, Absent, Absent)
ListFrame == Frame("text", "list", Absent, Absent, Absent, Absent)
Executing(da, node, pid) == Frame("text", "object", "executing", da, node, pid)
ExecutionError(pid) == Frame("text", "object", "execution_error", "mapping", Absent, pid)

\* The frames the engine may write to job j's stream.
Events(j) ==
    { BinaryFrame, BadJsonFrame, ListFrame,
      Executing("null", Absent, Absent),
      Executing("absent", Absent, Absent),
      Executing("mapping", NoneV, PromptOf(j)),
      Executing("mapping", Absent, PromptOf(j)),
      Executing("mapping", "", PromptOf(j)),
      Executing("mapping", "5", PromptOf(j)),
      Executing("mapping", NoneV, OtherPrompt(j)),
      Executing("mapping", "5", OtherPrompt(j)),
      ExecutionError(PromptOf(j)),
      ExecutionError(OtherPrompt(j)),
      Frame("text", "object", "progress", "mapping", "5", PromptOf(j)) }

\* d.get(key) on the data of a frame: None for a missing key, and for every
\* key of the {} that msg.get("data", {}) yields when "data" is missing.
DataGet(e, v) == IF e.data = "absent" \/ v = Absent THEN NoneV ELSE v

\* The entry monitor_execution appends for an execution_error event:
\* f"Node {node_id} ({node_type}): {exception_message}".
ErrorEntry(e) ==
    [kind |-> "node_error", name |-> e.node_id, node_type |-> e.node_type,
     message |-> e.exception_message]

\* ------------------------------------------------- monitor_execution, one frame

\* What one pass of the while loop does with the frame recv() returned, for
\* the job's handle prompt_id:
\*   "continue"  the frame is ignored and the loop goes on
\*   "done"      return True, errors
\*   "error"     the error entry is appended and return False, errors
\*   "raise"     an AttributeError (.get on a list or on None) leaves the
\*               function: none of the three except clauses catches it
monitor_frame_dropping_id_check(e, prompt_id) ==
    IF e.frame # "text" THEN "continue"
    ELSE IF e.json = "invalid" THEN "continue"
    ELSE IF e.json # "object" THEN "raise"
    ELSE IF e.type = "executing"
         THEN IF e.data = "null" THEN "raise"
              ELSE IF DataGet(e, e.node) = NoneV THEN "done" ELSE "continue"
    ELSE IF e.type = "execution_error"
         THEN IF e.data = "null" THEN "raise" ELSE "error"
    ELSE "continue"

monitor_frame_any_executing(e, prompt_id) ==
    IF e.frame # "text" THEN "continue"
    ELSE IF e.json = "invalid" THEN "continue"
    ELSE IF e.json # "object" THEN "raise"
    ELSE IF e.type = "executing"
         THEN IF e.data = "null" THEN "raise"
              ELSE IF DataGet(e, e.prompt_id) = prompt_id THEN "done" ELSE "continue"
    ELSE IF e.type = "execution_error"
         THEN IF e.data = "null" THEN "raise"
              ELSE IF DataGet(e, e.prompt_id) = prompt_id THEN "error" ELSE "continue"
    ELSE "continue"

monitor_frame_error_continues(e, prompt_id) ==
    IF e.frame # "text" THEN "continue"
    ELSE IF e.json = "invalid" THEN "continue"
    ELSE IF e.json # "object" THEN "raise"
    ELSE IF e.type = "executing"
         THEN IF e.data = "null" THEN "raise"
              ELSE IF DataGet(e, e.node) = NoneV /\ DataGet(e, e.prompt_id) = prompt_id
                   THEN "done" ELSE "continue"
    ELSE IF e.type = "execution_error"
         THEN IF e.data = "null" THEN "raise" ELSE "continue"
    ELSE "continue"

monitor_frame(e, prompt_id) ==
    IF e.frame # "text" THEN "continue"                  \* not isinstance(out, str)
    ELSE IF e.json = "invalid" THEN "continue"           \* except json.JSONDecodeError
    ELSE IF e.json # "object" THEN "raise"               \* msg.get on a list
    ELSE IF e.type = "executing"
         THEN IF e.data = "null" THEN "raise"            \* data.get on None
              ELSE IF DataGet(e, e.node) = NoneV /\ DataGet(e, e.prompt_id) = prompt_id
                   THEN "done" ELSE "continue"
    ELSE IF e.type = "execution_error"
         THEN IF e.data = "null" THEN "raise"
              ELSE IF DataGet(e, e.prompt_id) = prompt_id THEN "error" ELSE "continue"
    ELSE "continue"

\* ------------------------------------------------------------------ base64

\* base64.b64encode(file_bytes).decode(): bytes are 0..255, the characters of
\* the encoding are their index 0..63 in the base64 alphabet and 64 for "=".
Pad == 64

RECURSIVE b64encode(_)
b64encode(b) ==
    IF Len(b) = 0 THEN <<>>
    ELSE IF Len(b) = 1
         THEN << b[1] \div 4, (b[1] % 4) * 16, Pad, Pad >>
    ELSE IF Len(b) = 2
         THEN << b[1] \div 4, (b[1] % 4) * 16 + b[2] \div 16, (b[2] % 16) * 4, Pad >>
    ELSE << b[1] \div 4, (b[1] % 4) * 16 + b[2] \div 16,
            (b[2] % 16) * 4 + b[3] \div 64, b[3] % 64 >>
         \o b64encode(SubSeq(b, 4, Len(b)))

\* base64.b64decode of a padded encoding; the sequence <<-1>> stands for the
\* binascii.Error of an encoding whose length or padding is wrong.
RECURSIVE b64decode(_)
b64decode(c) ==
    IF Len(c) = 0 THEN <<>>
    ELSE IF Len(c) < 4 \/ c[1] = Pad \/ c[2] = Pad THEN << -1 >>
    ELSE IF c[3] = Pad
         THEN IF c[4] = Pad /\ Len(c) = 4
              THEN << c[1] * 4 + c[2] \div 16 >>
              ELSE << -1 >>
    ELSE IF c[4] = Pad
         THEN IF Len(c) = 4
              THEN << c[1] * 4 + c[2] \div 16, (c[2] % 16) * 16 + c[3] \div 4 >>
              ELSE << -1 >>
    ELSE << c[1] * 4 + c[2] \div 16, (c[2] % 16) * 16 + c[3] \div 4,
            (c[3] % 4) * 64 + c[4] >>
         \o b64decode(SubSeq(c, 5, Len(c)))

\* ------------------------------------------------------- output manifest

\* history[prompt_id]["outputs"]: node id -> node output, in the order of the
\* engine's JSON; a node output maps a media kind to a list of descriptors,
\* also in the order of the JSON.  A descriptor with filename "" has none.
Desc(fn, ty) == [filename |-> fn, subfolder |-> "", type |-> ty]
Kind(k, files) == [key |-> k, files |-> files]

Manifests ==
    { << >>,
      << << Kind("images", << Desc("a.png", "output") >>) >> >>,
      << << Kind("images", << Desc("t.png", "temp"), Desc("a.png", "output") >>) >> >>,
      << << Kind("images", << Desc("a.png", "output") >>),
            Kind("gifs", << Desc("c.gif", "output") >>) >> >>,
      << << Kind("images", << Desc("", "output"), Desc("c.gif", "temp") >>) >>,
         << Kind("videos", << Desc("b.mp4", "output") >>) >> >>,
      << << Kind("videos", << Desc("b.mp4", "output") >>),
            Kind("images", << Desc("a.png", "output"), Desc("a.png", "temp") >>) >> >> }

\* The bytes GET /view answers for a file of the engine, and the body of an
\* error response (which .content returns just the same).
FileBytes(fn) ==
    IF fn = "a.png" THEN << 137, 80 >>
    ELSE IF fn = "b.mp4" THEN << 0, 0, 0, 24 >>
    ELSE IF fn = "c.gif" THEN << 71 >>
    ELSE << 255, 216, 255 >>
ErrorBody == << 52, 48, 52 >>

\* req.upload_urls: None, or a list of {"name", "url"} with a destination.
Target(n, u) == [name |-> n, url |-> u]
UploadUrlLists ==
    { << >>,
      << Target("a.png", "https://dst/1") >>,
      << Target("b.mp4", "https://dst/2"), Target("c.gif", "https://dst/3"),
         Target("b.mp4", "https://dst/4") >> }

\* upload_map = {item["name"]: item["url"] ...}: the last entry of a name wins.
\* "" stands for upload_map.get(filename) being None.
RECURSIVE upload_map_get(_, _)
upload_map_get(upload_urls, filename) ==
    IF upload_urls = << >> THEN ""
    ELSE IF upload_urls[Len(upload_urls)].name = filename
         THEN upload_urls[Len(upload_urls)].url
    ELSE upload_map_get(SubSeq(upload_urls, 1, Len(upload_urls) - 1), filename)

\* node_output.get(key, [])
RECURSIVE node_get(_, _)
node_get(node_output, key) ==
    IF node_output = << >> THEN << >>
    ELSE IF node_output[1].key = key THEN node_output[1].files
    ELSE node_get(Tail(node_output), key)

\* The descriptors in the order the three nested loops visit them: node by
\* node, and within a node the kinds "videos", "gifs", "images".
RECURSIVE visit_order(_)
visit_order(outputs) ==
    IF outputs = << >> THEN << >>
    ELSE node_get(outputs[1], "videos") \o node_get(outputs[1], "gifs")
         \o node_get(outputs[1], "images") \o visit_order(Tail(outputs))

\* if not filename or file_type == "temp": continue
Skipped(d) == d.filename = "" \/ d.type = "temp"

\* What the engine and the destination answer for the i-th visited
\* descriptor: fetch is "ok", "error_response" (a 4xx/5xx with a body) or
\* "exception"; push is "ok" or "fail" (an exception or an error status).
\* "-" where the code makes no such call.
OutcomeSets(visited, upload_urls) ==
    { oc \in [1..Len(visited) -> [fetch : {"ok", "error_response", "exception", "-"},
                                  push : {"ok", "fail", "-"}]] :
        \A i \in 1..Len(visited) :
            /\ (oc[i].fetch = "-") <=> Skipped(visited[i])
            /\ (oc[i].push = "-") <=>
                  \/ oc[i].fetch \in {"-", "exception"}
                  \/ upload_map_get(upload_urls, visited[i].filename) = "" }

Fetched(d, fetch) == IF fetch = "ok" THEN FileBytes(d.filename) ELSE ErrorBody

OutputEntry(fn, ty, keys, data) ==
    [filename |-> fn, type |-> ty, keys |-> keys, data |-> data]
OutputError(kind, fn) ==
    [kind |-> kind, name |-> fn, node_type |-> "", message |-> "exception"]

\* process_outputs: returns output_data and errors.
RECURSIVE process_outputs_from(_, _, _, _)
process_outputs_from(visited, upload_urls, oc, i) ==
    IF i > Len(visited) THEN [output_data |-> << >>, errors |-> << >>]
    ELSE LET d == visited[i]
             rest == process_outputs_from(visited, upload_urls, oc, i + 1)
             upload_url == upload_map_get(upload_urls, d.filename)
         IN  IF Skipped(d) THEN rest
             ELSE IF oc[i].fetch = "exception"
                  THEN [rest EXCEPT !.errors = << OutputError("fetch_failed", d.filename) >> \o @]
             ELSE IF upload_url # ""
                  THEN IF oc[i].push = "ok"
                       THEN [rest EXCEPT !.output_data =
                                << OutputEntry(d.filename, "uploaded", {"filename", "type"}, << >>) >> \o @]
                       ELSE [rest EXCEPT !.errors = << OutputError("upload_failed", d.filename) >> \o @]
             ELSE [rest EXCEPT !.output_data =
                      << OutputEntry(d.filename, "base64", {"filename", "type", "data"},
                                     b64encode(Fetched(d, oc[i].fetch))) >> \o @]

process_outputs_inline_all(outputs, upload_urls, oc) ==
    process_outputs_from(visit_order(outputs), << >>, oc, 1)

process_outputs(outputs, upload_urls, oc) ==
    process_outputs_from(visit_order(outputs), upload_urls, oc, 1)

\* ----------------------------------------------------------- input staging

\* req.images: items {"name", "image"}; the image is base64 text, "datauri"
\* when a "data:...;base64," prefix precedes it, "invalid" when b64decode
\* raises.  req.download_urls: items {"name", "url"}.
Asset(n, d) == [name |-> n, data |-> d]
ImageLists ==
    { << >>, << Asset("in1.png", "valid") >>,
      << Asset("in1.png", "datauri"), Asset("in2.png", "invalid") >>,
      << Asset("in1.png", "valid"), Asset("in2.png", "datauri") >> }
DownloadLists ==
    { << >>, << Asset("clip.mp4", "url") >>,
      << Asset("sub/ref.png", "url"), Asset("clip.mp4", "url") >> }

\* What the network answers for the i-th item: "ok" or "fail" (an exception
\* of the request, or an error status raise_for_status() raises on).
StageOutcomes(items) == [1..Len(items) -> {"ok", "fail"}]

\* For an item of download_urls "fail" is an exception of the GET or a POST
\* that failed, and "error_response" a GET that was answered with an error
\* status: .content is taken without raise_for_status(), so the body of the
\* error response is what is uploaded to the engine, and nothing is raised.
DownloadOutcomes(items) == [1..Len(items) -> {"ok", "fail", "error_response"}]

\* The files one staging loop of job j leaves in /comfyui/input: those of the
\* items whose upload to the engine succeeded.
Written(j, items, oc, good) ==
    { [job |-> j, name |-> items[i].name] :
         i \in { n \in 1..Len(items) : items[n].data # "invalid" /\ oc[n] \in good } }

\* The names of the items one staging loop goes through.
Names(items) == [i \in 1..Len(items) |-> items[i].name]

StageError(kind, n) == [kind |-> kind, name |-> n, node_type |-> "", message |-> "exception"]

\* upload_images / download_and_upload_files: every item is tried; an item
\* that raises adds one entry; status is "error" iff there is an entry.
RECURSIVE stage_errors(_, _, _, _)
stage_errors(items, oc, kind, i) ==
    IF i > Len(items) THEN << >>
    ELSE (IF items[i].data = "invalid" \/ oc[i] = "fail"
          THEN << StageError(kind, items[i].name) >> ELSE << >>)
         \o stage_errors(items, oc, kind, i + 1)

upload_images(images, oc) ==
    LET errors == stage_errors(images, oc, "upload_failed_input", 1)
    IN  [status |-> IF errors # << >> THEN "error" ELSE "success", details |-> errors]

download_and_upload_files(download_urls, oc) ==
    LET errors == stage_errors(download_urls, oc, "process_failed_input", 1)
    IN  [status |-> IF errors # << >> THEN "error" ELSE "success", details |-> errors]

\* ------------------------------------------------------------- job results

\* The dict execute_job returns: keys says which of "error", "details",
\* "images", "warnings" it holds beside "status".
Result(status, keys, error, details, images, warnings) ==
    [status |-> status, keys |-> keys, error |-> error, details |-> details,
     images |-> images, warnings |-> warnings]
NoResult == Result("", {}, "", << >>, << >>, << >>)
Failed(error) == Result("failed", {"error"}, error, << >>, << >>, << >>)
FailedWith(error, details) == Result("failed", {"error", "details"}, error, details, << >>, << >>)
Completed(images, warnings) ==
    Result("completed", IF warnings # << >> THEN {"images", "warnings"} ELSE {"images"},
           "", << >>, images, warnings)

\* The end of execute_job, once collection has returned: all_errors, the
\* reclassification of an empty result with errors, and the warnings.
job_result_completes_on_errors(exec_errors, out) ==
    Completed(out.output_data, exec_errors \o out.errors)

job_result(exec_errors, out) ==
    LET all_errors == exec_errors \o out.errors
    IN  IF out.output_data = << >> /\ all_errors # << >>
        THEN FailedWith("Job produced no output", all_errors)
        ELSE Completed(out.output_data, all_errors)

\* ---------------------------------------------------------- fire_callback

\* What one requests.post of the callback gives: an exception, or a response.
CallbackOutcomes ==
    { [exc |-> TRUE, status |-> 0] } \cup
    { [exc |-> FALSE, status |-> st] : st \in {200, 299, 300, 500} }
NoOutcome == [exc |-> FALSE, status |-> 0]

\* The attempt delivered: no exception and r.status_code < 300.
delivered(o) == ~o.exc /\ o.status < ErrorThreshold

\* -------------------------------------------------------------------- state

VARIABLES
    arrived,         \* number of POST /run requests that reached the server
    admitted,        \* number of POST /run requests accepted so far
    loopBusy,        \* 0, or the job whose fire_callback blocks the event loop
    health,          \* "idle", or "probing": the health handler waits for its GET
    pc,              \* where each job's run_job / execute_job stands
    result,          \* the dict execute_job returns (NoResult until computed)
    prompt_id,       \* the execution handle, "" before submission
    ws,              \* the WebSocket execute_job created: "none", "connected", "closed"
    rews,            \* the WebSocket of the last successful reconnect, likewise
    alive,           \* the connection to the engine is up on the engine's side
    stream,          \* frames written by the engine and not yet received
    emitted,         \* frames the engine has written for the job
    drops,           \* connection losses so far
    attempt,         \* loop index of reconnect_websocket
    probe,           \* the liveness GET of the current pass: "none", "ok", "unreachable"
    lastRecv,        \* how the last ws.recv() ended: "none", "frame", "timeout", "closed"
    recvLog,         \* the frames ws.recv() returned, until the finally clause has run
    client_id,       \* the clientId of ws_url, "" before it is drawn
    rewsClient,      \* the clientId the socket of the last reconnect connected with
    ops,             \* the stages of execute_job / run_job the job has entered
    execution_done,  \* first value monitor_execution returned
    exec_errors,     \* errors list of monitor_execution
    monitored,       \* "no", "returned" or "raised": how monitor_execution ended
    manifest,        \* history[prompt_id]["outputs"]
    upload_urls,     \* req.upload_urls
    outcomes,        \* the answers to the fetches and pushes of collection
    cbSeqs,          \* calls of fire_callback for the job
    cbAttempts,      \* requests.post calls of fire_callback for the job
    cbLast,          \* what the last of them gave
    images,          \* req.images, until the stream is opened
    download_urls,   \* req.download_urls, likewise
    imgOutcomes,     \* the answers to the uploads of upload_images
    dlOutcomes,      \* the answers to the requests of download_and_upload_files
    staged,          \* names of the input assets the staging loops have tried
    submits,         \* what the engine answered to each POST /prompt of the job
    staged_inputs,   \* files in /comfyui/input staged by a job that has not yet
                     \* submitted its workflow, as [job, name]
    pods,            \* pod_api_mock: the registry _pods
    containers,      \* pod_api_mock: the Docker container started for each pod
    bootPc,          \* pod_api_mock: where each pod's _boot thread stands
    termPc,          \* pod_api_mock: where each pod's terminate_pod stands
    termPod          \* pod_api_mock: the record terminate_pod popped

vars == << arrived, admitted, loopBusy, health, pc, result, prompt_id, ws, rews, alive,
           stream, emitted, drops, attempt, probe, lastRecv, recvLog, client_id,
           rewsClient, ops, execution_done, exec_errors,
           monitored, manifest, upload_urls, outcomes, cbSeqs, cbAttempts, cbLast,
           images, download_urls, imgOutcomes, dlOutcomes, staged, submits,
           staged_inputs, pods, containers, bootPc, termPc, termPod >>

connVars == << ws, rews, alive, stream, emitted, drops, attempt, probe, lastRecv,
              recvLog, client_id, rewsClient >>
stageVars == << images, download_urls, imgOutcomes, dlOutcomes, staged >>
fsVars == << submits, staged_inputs >>
podVars == << pods, containers, bootPc, termPc, termPod >>
monVars == << execution_done, exec_errors, monitored >>
outVars == << manifest, upload_urls, outcomes >>
cbVars == << cbSeqs, cbAttempts, cbLast >>

Init ==
    /\ arrived = 0
    /\ admitted = 0
    /\ loopBusy = 0
    /\ health = "idle"
    /\ pc = [j \in Jobs |-> "idle"]
    /\ result = [j \in Jobs |-> NoResult]
    /\ prompt_id = [j \in Jobs |-> ""]
    /\ ws = [j \in Jobs |-> "none"]
    /\ rews = [j \in Jobs |-> "none"]
    /\ alive = [j \in Jobs |-> FALSE]
    /\ stream = [j \in Jobs |-> << >>]
    /\ emitted = [j \in Jobs |-> 0]
    /\ drops = [j \in Jobs |-> 0]
    /\ attempt = [j \in Jobs |-> 0]
    /\ probe = [j \in Jobs |-> "none"]
    /\ lastRecv = [j \in Jobs |-> "none"]
    /\ recvLog = [j \in Jobs |-> << >>]
    /\ client_id = [j \in Jobs |-> ""]
    /\ rewsClient = [j \in Jobs |-> ""]
    /\ ops = [j \in Jobs |-> {}]
    /\ execution_done = [j \in Jobs |-> FALSE]
    /\ exec_errors = [j \in Jobs |-> << >>]
    /\ monitored = [j \in Jobs |-> "no"]
    /\ manifest = [j \in Jobs |-> << >>]
    /\ upload_urls = [j \in Jobs |-> << >>]
    /\ outcomes = [j \in Jobs |-> << >>]
    /\ cbSeqs = [j \in Jobs |-> 0]
    /\ cbAttempts = [j \in Jobs |-> 0]
    /\ cbLast = [j \in Jobs |-> NoOutcome]
    /\ images = [j \in Jobs |-> << >>]
    /\ download_urls = [j \in Jobs |-> << >>]
    /\ imgOutcomes = [j \in Jobs |-> << >>]
    /\ dlOutcomes = [j \in Jobs |-> << >>]
    /\ staged = [j \in Jobs |-> << >>]
    /\ submits = [j \in Jobs |-> << >>]
    /\ staged_inputs = {}
    /\ pods = [p \in PodIds |-> NoRecord]
    /\ containers = [p \in PodIds |-> "none"]
    /\ bootPc = [p \in PodIds |-> "idle"]
    /\ termPc = [p \in PodIds |-> "idle"]
    /\ termPod = [p \in PodIds |-> NoRecord]

\* The job enters a stage.
Enter(j, stage) == ops' = [ops EXCEPT ![j] = @ \cup {stage}]

\* execute_job returns r: the executor's future completes and run_job waits
\* for the event loop.
Return(j, r) ==
    /\ result' = [result EXCEPT ![j] = r]
    /\ pc' = [pc EXCEPT ![j] = "returned"]

\* An exception or a return inside the try of lines 174-183: the finally
\* clause runs before execute_job's except clause or the return.
Leave(j, r) ==
    /\ result' = [result EXCEPT ![j] = r]
    /\ pc' = [pc EXCEPT ![j] = "finally"]

\* ------------------------------------------------------- POST /run, run_job

\* The event loop is the one thread that runs the handlers and the
\* coroutines: it can start one only when it is not inside a call that blocks.
LoopFree == loopBusy = 0 /\ health = "idle"

\* A client's POST /run reaches the server and waits for the event loop.
post_run(j) ==
    /\ j = arrived + 1
    /\ arrived' = arrived + 1
    /\ UNCHANGED << podVars, fsVars, admitted, loopBusy, health, pc, result, prompt_id,
                    connVars, ops, monVars, outVars, cbVars, stageVars >>

\* run: the handler runs on the event loop, creates the task and answers 202.
run_single_flight(j) ==
    /\ LoopFree
    /\ arrived > admitted
    /\ j = admitted + 1
    /\ pc[j] = "idle"
    /\ \A k \in Jobs : pc[k] \in {"idle", "done"}
    /\ admitted' = admitted + 1
    /\ pc' = [pc EXCEPT ![j] = "task"]
    /\ UNCHANGED << podVars, fsVars, arrived, loopBusy, health, result, prompt_id,
                    connVars, ops, monVars, outVars, cbVars, stageVars >>

run(j) ==
    /\ LoopFree
    /\ arrived > admitted
    /\ j = admitted + 1
    /\ pc[j] = "idle"
    /\ admitted' = admitted + 1
    /\ pc' = [pc EXCEPT ![j] = "task"]
    /\ UNCHANGED << podVars, fsVars, arrived, loopBusy, health, result, prompt_id,
                    connVars, ops, monVars, outVars, cbVars, stageVars >>

\* run_job up to its await: the event loop hands execute_job to the executor.
run_job_start(j) ==
    /\ LoopFree
    /\ pc[j] = "task"
    /\ pc' = [pc EXCEPT ![j] = "cleanup"]
    /\ UNCHANGED << podVars, fsVars, admitted, arrived, loopBusy, health, result,
                    prompt_id, connVars, ops, monVars, outVars, cbVars, stageVars >>

\* health: a coroutine that calls requests.get(f"http://{COMFY_HOST}/",
\* timeout=3) directly: the event loop is inside that call until the engine
\* answers or the 3 s have passed, and then returns the answer.
health_begin ==
    /\ LoopFree
    /\ health' = "probing"
    /\ UNCHANGED << podVars, fsVars, arrived, admitted, loopBusy, pc, result, prompt_id,
                    connVars, ops, monVars, outVars, cbVars, stageVars >>

health_end ==
    /\ health = "probing"
    /\ health' = "idle"
    /\ UNCHANGED << podVars, fsVars, arrived, admitted, loopBusy, pc, result, prompt_id,
                    connVars, ops, monVars, outVars, cbVars, stageVars >>

\* ------------------------------------------------ execute_job, before the stream

\* cleanup_comfyui_directories: every entry of /comfyui/input, output and
\* temp is removed, whichever job put it there; an error of os.remove /
\* shutil.rmtree is printed and leaves that entry (kept); an error of
\* os.listdir is outside the try and reaches execute_job, with the input
\* directory untouched or already emptied.
cleanup(j) ==
    /\ pc[j] = "cleanup"
    /\ Enter(j, "cleanup")
    /\ \/ \E kept \in SUBSET staged_inputs :
             /\ staged_inputs' = kept
             /\ pc' = [pc EXCEPT ![j] = "check_server"]
             /\ UNCHANGED result
       \/ /\ \E kept \in {staged_inputs, {}} : staged_inputs' = kept
          /\ Return(j, Failed("OSError: listdir"))
    /\ UNCHANGED << podVars, submits, admitted, arrived, loopBusy, health, prompt_id,
                    connVars, monVars, outVars, cbVars, stageVars >>

\* check_server: up to 5 GETs; False when none answered 200.
check_server(j) ==
    /\ pc[j] = "check_server"
    /\ Enter(j, "check_server")
    /\ \/ /\ pc' = [pc EXCEPT ![j] = "images"]
          /\ UNCHANGED result
       \/ Return(j, Failed("ComfyUI not reachable"))
    /\ UNCHANGED << podVars, fsVars, admitted, arrived, loopBusy, health, prompt_id,
                    connVars, monVars, outVars, cbVars, stageVars >>

\* if req.images: r = upload_images(req.images) and the check of r.  The
\* two input lists of the request are drawn here, where staging starts.
stage_images_elif_downloads(j) ==
    /\ pc[j] = "images"
    /\ \E imgs \in ImageLists : \E urls \in DownloadLists :
       \E oc \in StageOutcomes(imgs) :
          LET r == upload_images(imgs, oc)
          IN  /\ Enter(j, "images")
              /\ images' = [images EXCEPT ![j] = imgs]
              /\ download_urls' = [download_urls EXCEPT ![j] = urls]
              /\ imgOutcomes' = [imgOutcomes EXCEPT ![j] = oc]
              /\ staged' = [staged EXCEPT ![j] = @ \o Names(imgs)]
              /\ staged_inputs' = staged_inputs \cup Written(j, imgs, oc, {"ok"})
              /\ IF imgs # << >> /\ r.status = "error"
                 THEN Return(j, FailedWith("Image upload failed", r.details))
                 ELSE /\ pc' = [pc EXCEPT ![j] = IF imgs # << >> THEN "connect"
                                                  ELSE "downloads"]
                      /\ UNCHANGED result
    /\ UNCHANGED << podVars, submits, admitted, arrived, loopBusy, health, prompt_id,
                    connVars, monVars, outVars, cbVars, dlOutcomes >>

stage_images(j) ==
    /\ pc[j] = "images"
    /\ \E imgs \in ImageLists : \E urls \in DownloadLists :
       \E oc \in StageOutcomes(imgs) :
          LET r == upload_images(imgs, oc)
          IN  /\ Enter(j, "images")
              /\ images' = [images EXCEPT ![j] = imgs]
              /\ download_urls' = [download_urls EXCEPT ![j] = urls]
              /\ imgOutcomes' = [imgOutcomes EXCEPT ![j] = oc]
              /\ staged' = [staged EXCEPT ![j] = @ \o Names(imgs)]
              /\ staged_inputs' = staged_inputs \cup Written(j, imgs, oc, {"ok"})
              /\ IF imgs # << >> /\ r.status = "error"
                 THEN Return(j, FailedWith("Image upload failed", r.details))
                 ELSE /\ pc' = [pc EXCEPT ![j] = "downloads"]
                      /\ UNCHANGED result
    /\ UNCHANGED << podVars, submits, admitted, arrived, loopBusy, health, prompt_id,
                    connVars, monVars, outVars, cbVars, dlOutcomes >>

\* if req.download_urls: r = download_and_upload_files(req.download_urls)
\* and the check of r.
stage_downloads(j) ==
    /\ pc[j] = "downloads"
    /\ \E oc \in DownloadOutcomes(download_urls[j]) :
          LET r == download_and_upload_files(download_urls[j], oc)
          IN  /\ Enter(j, "downloads")
              /\ dlOutcomes' = [dlOutcomes EXCEPT ![j] = oc]
              /\ staged' = [staged EXCEPT ![j] = @ \o Names(download_urls[j])]
              /\ staged_inputs' = staged_inputs \cup
                    Written(j, download_urls[j], oc, {"ok", "error_response"})
              /\ IF download_urls[j] # << >> /\ r.status = "error"
                 THEN Return(j, FailedWith("File download/upload failed", r.details))
                 ELSE /\ pc' = [pc EXCEPT ![j] = "connect"]
                      /\ UNCHANGED result
    /\ UNCHANGED << podVars, submits, admitted, arrived, loopBusy, health, prompt_id,
                    connVars, monVars, outVars, cbVars, images, download_urls,
                    imgOutcomes >>

\* client_id = str(uuid.uuid4()); ws = websocket.WebSocket();
\* ws.connect(ws_url, timeout=10): outside the inner try, so a failure goes
\* straight to execute_job's except clause.  (The input lists are not read
\* again: the model drops them and its record of the staging.)
ClientOf(j) == IF j = 1 THEN "client-1" ELSE "client-2"

ws_connect(j) ==
    /\ pc[j] = "connect"
    /\ Enter(j, "connect")
    /\ images' = [images EXCEPT ![j] = << >>]
    /\ download_urls' = [download_urls EXCEPT ![j] = << >>]
    /\ imgOutcomes' = [imgOutcomes EXCEPT ![j] = << >>]
    /\ dlOutcomes' = [dlOutcomes EXCEPT ![j] = << >>]
    /\ staged' = [staged EXCEPT ![j] = << >>]
    /\ client_id' = [client_id EXCEPT ![j] = ClientOf(j)]
    /\ \/ /\ ws' = [ws EXCEPT ![j] = "connected"]
          /\ alive' = [alive EXCEPT ![j] = TRUE]
          /\ pc' = [pc EXCEPT ![j] = "queue"]
          /\ UNCHANGED result
       \/ /\ Return(j, Failed("ConnectionRefusedError"))
          /\ UNCHANGED << ws, alive >>
    /\ UNCHANGED << podVars, fsVars, admitted, arrived, loopBusy, health, prompt_id,
                    rews, stream, emitted, drops, attempt, probe, lastRecv, recvLog,
                    rewsClient, monVars, outVars, cbVars >>

\* What POST /prompt gives, and the error execute_job returns for it: a 400
\* is a ValueError, another error status an HTTPError of raise_for_status(),
\* a failed request a ConnectionError, and a 2xx whose JSON holds no
\* prompt_id is answered by execute_job itself.
QueueAnswers == {"handle", "no_handle", "400", "http_error", "transport"}
QueueError(answer) ==
    CASE answer = "400" -> "Workflow validation failed"
      [] answer = "http_error" -> "HTTPError"
      [] answer = "transport" -> "ConnectionError"
      [] OTHER -> "No prompt_id in response"

\* The files of /comfyui/input that job j staged.
InputsOf(j) == { f \in staged_inputs : f.job = j }

\* queue_workflow and the check of its answer.
queue_workflow_retries(j) ==
    /\ pc[j] = "queue"
    /\ Enter(j, "queue")
    /\ staged_inputs' = staged_inputs \ InputsOf(j)
    /\ \E answer \in QueueAnswers :
          /\ submits' = [submits EXCEPT ![j] = Append(@, answer)]
          /\ IF answer = "handle"
             THEN /\ prompt_id' = [prompt_id EXCEPT ![j] = PromptOf(j)]
                  /\ pc' = [pc EXCEPT ![j] = "monitor"]
                  /\ UNCHANGED result
             ELSE IF answer = "transport" /\ Len(submits[j]) = 0
             THEN UNCHANGED << prompt_id, pc, result >>
             ELSE /\ Leave(j, Failed(QueueError(answer)))
                  /\ UNCHANGED prompt_id
    /\ UNCHANGED << podVars, admitted, arrived, loopBusy, health, connVars, monVars,
                    outVars, cbVars, stageVars >>

queue_workflow(j) ==
    /\ pc[j] = "queue"
    /\ Enter(j, "queue")
    /\ staged_inputs' = staged_inputs \ InputsOf(j)
    /\ \E answer \in QueueAnswers :
          /\ submits' = [submits EXCEPT ![j] = Append(@, answer)]
          /\ IF answer = "handle"
             THEN /\ prompt_id' = [prompt_id EXCEPT ![j] = PromptOf(j)]
                  /\ pc' = [pc EXCEPT ![j] = "monitor"]
                  /\ UNCHANGED result
             ELSE /\ Leave(j, Failed(QueueError(answer)))
                  /\ UNCHANGED prompt_id
    /\ UNCHANGED << podVars, admitted, arrived, loopBusy, health, connVars, monVars,
                    outVars, cbVars, stageVars >>

\* ------------------------------------------------------ engine and network

Monitoring(j) == pc[j] \in {"monitor", "reconnect", "reconnect_connect"}

\* The engine writes a frame to the job's stream.  Without a connection the
\* frame is lost: nothing is replayed after a reconnect.
EngineEmit(j) ==
    /\ Monitoring(j)
    /\ emitted[j] < MaxEvents
    /\ \E e \in Events(j) :
          stream' = [stream EXCEPT ![j] = IF alive[j] THEN Append(@, e) ELSE @]
    /\ emitted' = [emitted EXCEPT ![j] = @ + 1]
    /\ UNCHANGED << podVars, fsVars, admitted, arrived, loopBusy, health, pc, result,
                    prompt_id, ws, rews, alive, drops, attempt, probe, lastRecv,
                    recvLog, client_id, rewsClient, ops, monVars, outVars, cbVars,
                    stageVars >>

\* The connection is lost.  Frames already delivered can still be received.
ConnDrop(j) ==
    /\ pc[j] = "monitor"
    /\ alive[j]
    /\ drops[j] < MaxDrops
    /\ alive' = [alive EXCEPT ![j] = FALSE]
    /\ drops' = [drops EXCEPT ![j] = @ + 1]
    /\ UNCHANGED << podVars, fsVars, admitted, arrived, loopBusy, health, pc, result,
                    prompt_id, ws, rews, stream, emitted, attempt, probe, lastRecv,
                    recvLog, client_id, rewsClient, ops, monVars, outVars, cbVars,
                    stageVars >>

\* ------------------------------------------------------- monitor_execution

\* One pass of the while loop that receives a frame.
monitor_recv(j) ==
    /\ pc[j] = "monitor"
    /\ stream[j] # << >>
    /\ Enter(j, "monitor")
    /\ LET e == Head(stream[j])
           what == monitor_frame(e, prompt_id[j])
       IN  /\ stream' = [stream EXCEPT ![j] = Tail(@)]
           /\ recvLog' = [recvLog EXCEPT ![j] = Append(@, e)]
           /\ lastRecv' = [lastRecv EXCEPT ![j] = "frame"]
           /\ CASE what = "done" ->
                     /\ execution_done' = [execution_done EXCEPT ![j] = TRUE]
                     /\ monitored' = [monitored EXCEPT ![j] = "returned"]
                     /\ pc' = [pc EXCEPT ![j] = "finally"]
                     /\ UNCHANGED << exec_errors, result >>
                [] what = "error" ->
                     /\ exec_errors' = [exec_errors EXCEPT ![j] = Append(@, ErrorEntry(e))]
                     /\ monitored' = [monitored EXCEPT ![j] = "returned"]
                     /\ pc' = [pc EXCEPT ![j] = "finally"]
                     /\ UNCHANGED << execution_done, result >>
                [] what = "raise" ->
                     /\ monitored' = [monitored EXCEPT ![j] = "raised"]
                     /\ Leave(j, Failed("AttributeError"))
                     /\ UNCHANGED << execution_done, exec_errors >>
                [] OTHER -> UNCHANGED << pc, result, monVars >>
    /\ UNCHANGED << podVars, fsVars, admitted, arrived, loopBusy, health, prompt_id, ws,
                    rews, alive, emitted, drops, attempt, probe, client_id, rewsClient,
                    outVars, cbVars, stageVars >>

\* ws.recv() raises WebSocketTimeoutException (the 10 s of connect's timeout
\* passed without a frame): continue.
monitor_timeout_reconnects(j) ==
    /\ pc[j] = "monitor"
    /\ stream[j] = << >>
    /\ alive[j]
    /\ Enter(j, "monitor")
    /\ lastRecv' = [lastRecv EXCEPT ![j] = "timeout"]
    /\ attempt' = [attempt EXCEPT ![j] = 0]
    /\ pc' = [pc EXCEPT ![j] = "reconnect"]
    /\ UNCHANGED << podVars, fsVars, admitted, arrived, loopBusy, health, result,
                    prompt_id, ws, rews, alive, stream, emitted, drops, probe, recvLog,
                    client_id, rewsClient, monVars, outVars, cbVars, stageVars >>

monitor_timeout(j) ==
    /\ pc[j] = "monitor"
    /\ stream[j] = << >>
    /\ alive[j]
    /\ Enter(j, "monitor")
    /\ lastRecv' = [lastRecv EXCEPT ![j] = "timeout"]
    /\ UNCHANGED << podVars, fsVars, admitted, arrived, loopBusy, health, pc, result,
                    prompt_id, ws, rews, alive, stream, emitted, drops, attempt, probe,
                    recvLog, client_id, rewsClient, monVars, outVars, cbVars, stageVars >>

\* ws.recv() raises WebSocketConnectionClosedException (the socket it used is
\* now not connected): ws = reconnect_websocket(ws_url, e).
monitor_closed(j) ==
    /\ pc[j] = "monitor"
    /\ stream[j] = << >>
    /\ ~alive[j]
    /\ Enter(j, "monitor")
    /\ IF rews[j] = "none"
       THEN ws' = [ws EXCEPT ![j] = "closed"] /\ UNCHANGED rews
       ELSE rews' = [rews EXCEPT ![j] = "closed"] /\ UNCHANGED ws
    /\ lastRecv' = [lastRecv EXCEPT ![j] = "closed"]
    /\ attempt' = [attempt EXCEPT ![j] = 0]
    /\ pc' = [pc EXCEPT ![j] = "reconnect"]
    /\ UNCHANGED << podVars, fsVars, admitted, arrived, loopBusy, health, result,
                    prompt_id, alive, stream, emitted, drops, probe, recvLog, client_id,
                    rewsClient, monVars, outVars, cbVars, stageVars >>

\* ------------------------------------------------------ reconnect_websocket

\* The head of one pass of the for loop: the liveness GET; or, the range
\* being used up, the raise after the loop.  Either exception is raised in
\* monitor_execution's except clause and so leaves monitor_execution.
reconnect_probe_unbounded(j) ==
    /\ pc[j] = "reconnect"
    /\ Enter(j, "reconnect")
    /\ \/ /\ probe' = [probe EXCEPT ![j] = "ok"]
          /\ pc' = [pc EXCEPT ![j] = "reconnect_connect"]
          /\ UNCHANGED << result, monitored >>
       \/ /\ attempt[j] < WEBSOCKET_RECONNECT_ATTEMPTS
          /\ probe' = [probe EXCEPT ![j] = "unreachable"]
          /\ monitored' = [monitored EXCEPT ![j] = "raised"]
          /\ Leave(j, Failed("ComfyUI unreachable during reconnect"))
    /\ UNCHANGED << podVars, fsVars, admitted, arrived, loopBusy, health, prompt_id, ws,
                    rews, alive, stream, emitted, drops, attempt, lastRecv, recvLog,
                    client_id, rewsClient, execution_done, exec_errors, outVars, cbVars,
                    stageVars >>

reconnect_probe_ignores_unreachable(j) ==
    /\ pc[j] = "reconnect"
    /\ Enter(j, "reconnect")
    /\ \/ /\ attempt[j] < WEBSOCKET_RECONNECT_ATTEMPTS
          /\ \E answer \in {"ok", "unreachable"} : probe' = [probe EXCEPT ![j] = answer]
          /\ pc' = [pc EXCEPT ![j] = "reconnect_connect"]
          /\ UNCHANGED << result, monitored >>
       \/ /\ attempt[j] >= WEBSOCKET_RECONNECT_ATTEMPTS
          /\ UNCHANGED probe
          /\ monitored' = [monitored EXCEPT ![j] = "raised"]
          /\ Leave(j, Failed("Failed to reconnect after N attempts"))
    /\ UNCHANGED << podVars, fsVars, admitted, arrived, loopBusy, health, prompt_id, ws,
                    rews, alive, stream, emitted, drops, attempt, lastRecv, recvLog,
                    client_id, rewsClient, execution_done, exec_errors, outVars, cbVars,
                    stageVars >>

reconnect_probe(j) ==
    /\ pc[j] = "reconnect"
    /\ Enter(j, "reconnect")
    /\ \/ /\ attempt[j] < WEBSOCKET_RECONNECT_ATTEMPTS
          /\ probe' = [probe EXCEPT ![j] = "ok"]
          /\ pc' = [pc EXCEPT ![j] = "reconnect_connect"]
          /\ UNCHANGED << result, monitored >>
       \/ /\ attempt[j] < WEBSOCKET_RECONNECT_ATTEMPTS
          /\ probe' = [probe EXCEPT ![j] = "unreachable"]
          /\ monitored' = [monitored EXCEPT ![j] = "raised"]
          /\ Leave(j, Failed("ComfyUI unreachable during reconnect"))
       \/ /\ attempt[j] >= WEBSOCKET_RECONNECT_ATTEMPTS
          /\ UNCHANGED probe
          /\ monitored' = [monitored EXCEPT ![j] = "raised"]
          /\ Leave(j, Failed("Failed to reconnect after N attempts"))
    /\ UNCHANGED << podVars, fsVars, admitted, arrived, loopBusy, health, prompt_id, ws,
                    rews, alive, stream, emitted, drops, attempt, lastRecv, recvLog,
                    client_id, rewsClient, execution_done, exec_errors, outVars, cbVars,
                    stageVars >>

\* The rest of the pass: new_ws.connect(ws_url, timeout=10); on success the
\* new socket is returned and becomes monitor_execution's ws, on failure the
\* loop sleeps and goes to its next pass.  The answer of the liveness GET is
\* that of this pass only.
reconnect_connect_gives_up(j) ==
    /\ pc[j] = "reconnect_connect"
    /\ probe' = [probe EXCEPT ![j] = "none"]
    /\ \/ /\ rews' = [rews EXCEPT ![j] = "connected"]
          /\ rewsClient' = [rewsClient EXCEPT ![j] = client_id[j]]
          /\ alive' = [alive EXCEPT ![j] = TRUE]
          /\ stream' = [stream EXCEPT ![j] = << >>]
          /\ IF attempt[j] = 0
             THEN pc' = [pc EXCEPT ![j] = "monitor"] /\ UNCHANGED << result, monitored >>
             ELSE /\ monitored' = [monitored EXCEPT ![j] = "raised"]
                  /\ Leave(j, Failed("Failed to reconnect after N attempts"))
          /\ UNCHANGED attempt
       \/ /\ attempt' = [attempt EXCEPT ![j] = @ + 1]
          /\ pc' = [pc EXCEPT ![j] = "reconnect"]
          /\ UNCHANGED << rews, rewsClient, alive, stream, result, monitored >>
    /\ UNCHANGED << podVars, fsVars, admitted, arrived, loopBusy, health, prompt_id, ws,
                    emitted, drops, lastRecv, recvLog, client_id, ops, execution_done,
                    exec_errors, outVars, cbVars, stageVars >>

reconnect_connect(j) ==
    /\ pc[j] = "reconnect_connect"
    /\ probe' = [probe EXCEPT ![j] = "none"]
    /\ \/ /\ rews' = [rews EXCEPT ![j] = "connected"]
          /\ rewsClient' = [rewsClient EXCEPT ![j] = client_id[j]]
          /\ alive' = [alive EXCEPT ![j] = TRUE]
          /\ stream' = [stream EXCEPT ![j] = << >>]
          /\ pc' = [pc EXCEPT ![j] = "monitor"]
          /\ UNCHANGED attempt
       \/ /\ attempt' = [attempt EXCEPT ![j] = @ + 1]
          /\ pc' = [pc EXCEPT ![j] = "reconnect"]
          /\ UNCHANGED << rews, rewsClient, alive, stream >>
    /\ UNCHANGED << podVars, fsVars, admitted, arrived, loopBusy, health, result,
                    prompt_id, ws, emitted, drops, lastRecv, recvLog, client_id, ops,
                    monVars, outVars, cbVars, stageVars >>

\* ------------------------------------------------- execute_job, after the try

\* finally: if ws.connected: ws.close().  ws is execute_job's own variable,
\* the socket it created; a socket reconnect_websocket returned is known to
\* monitor_execution alone.  Then the pending return or exception goes on.
\* (The frames left on the stream are never read: the model drops them, and
\* with them its record of the frames received.)
finally_close(j) ==
    /\ pc[j] = "finally"
    /\ ws' = [ws EXCEPT ![j] = IF @ = "connected" THEN "closed" ELSE @]
    /\ alive' = [alive EXCEPT ![j] = IF ws[j] = "connected" THEN FALSE ELSE @]
    /\ stream' = [stream EXCEPT ![j] = << >>]
    /\ recvLog' = [recvLog EXCEPT ![j] = << >>]
    /\ pc' = [pc EXCEPT ![j] = IF result[j] # NoResult THEN "returned" ELSE "history"]
    /\ UNCHANGED << podVars, fsVars, admitted, arrived, loopBusy, health, result,
                    prompt_id, rews, emitted, drops, attempt, probe, lastRecv,
                    client_id, rewsClient, ops, monVars, outVars, cbVars, stageVars >>

\* The check of what monitoring returned, get_history and the lookup of the
\* handle in its answer.
get_history(j) ==
    /\ pc[j] = "history"
    /\ IF ~execution_done[j] /\ exec_errors[j] = << >>
       THEN /\ Return(j, Failed("Execution monitoring exited unexpectedly"))
            /\ UNCHANGED << manifest, ops >>
       ELSE /\ Enter(j, "history")
            /\ \/ /\ Return(j, Failed("HTTPError"))
                  /\ UNCHANGED manifest
               \/ /\ Return(j, Failed("Prompt not found in history"))
                  /\ UNCHANGED manifest
               \/ \E m \in Manifests :
                     /\ manifest' = [manifest EXCEPT ![j] = m]
                     /\ pc' = [pc EXCEPT ![j] = "outputs"]
                     /\ UNCHANGED result
    /\ UNCHANGED << podVars, fsVars, admitted, arrived, loopBusy, health, prompt_id,
                    connVars, monVars, upload_urls, outcomes, cbVars, stageVars >>

\* process_outputs and the rest of execute_job.
collect_outputs(j) ==
    /\ pc[j] = "outputs"
    /\ Enter(j, "outputs")
    /\ \E urls \in UploadUrlLists :
       \E oc \in OutcomeSets(visit_order(manifest[j]), urls) :
          /\ upload_urls' = [upload_urls EXCEPT ![j] = urls]
          /\ outcomes' = [outcomes EXCEPT ![j] = oc]
          /\ Return(j, job_result(exec_errors[j], process_outputs(manifest[j], urls, oc)))
    /\ UNCHANGED << podVars, fsVars, admitted, arrived, loopBusy, health, prompt_id,
                    connVars, monVars, manifest, cbVars, stageVars >>

\* ------------------------------------------------- run_job, after the await

\* The event loop resumes run_job, which calls fire_callback: a plain call in
\* a coroutine, so the loop runs nothing else until it returns.
fire_callback_begin(j) ==
    /\ LoopFree
    /\ pc[j] = "returned"
    /\ loopBusy' = j
    /\ cbSeqs' = [cbSeqs EXCEPT ![j] = @ + 1]
    /\ pc' = [pc EXCEPT ![j] = "callback"]
    /\ Enter(j, "callback")
    /\ UNCHANGED << podVars, fsVars, admitted, arrived, health, result, prompt_id,
                    connVars, monVars, outVars, cbAttempts, cbLast, stageVars >>

\* One pass of for attempt in range(3): the POST; return when it delivered,
\* else sleep and go on; after the third pass the function ends.
fire_callback_attempt_unbounded(j) ==
    /\ pc[j] = "callback"
    /\ \E o \in CallbackOutcomes :
          /\ cbAttempts' = [cbAttempts EXCEPT ![j] = @ + 1]
          /\ cbLast' = [cbLast EXCEPT ![j] = o]
          /\ IF delivered(o) \/ cbAttempts[j] + 1 >= CallbackAttempts + 1
             THEN pc' = [pc EXCEPT ![j] = "done"] /\ loopBusy' = 0
             ELSE UNCHANGED << pc, loopBusy >>
    /\ UNCHANGED << podVars, fsVars, admitted, arrived, health, result, prompt_id,
                    connVars, ops, monVars, outVars, cbSeqs, stageVars >>

fire_callback_attempt(j) ==
    /\ pc[j] = "callback"
    /\ \E o \in CallbackOutcomes :
          /\ cbAttempts' = [cbAttempts EXCEPT ![j] = @ + 1]
          /\ cbLast' = [cbLast EXCEPT ![j] = o]
          /\ IF delivered(o) \/ cbAttempts[j] + 1 >= CallbackAttempts
             THEN pc' = [pc EXCEPT ![j] = "done"] /\ loopBusy' = 0
             ELSE UNCHANGED << pc, loopBusy >>
    /\ UNCHANGED << podVars, fsVars, admitted, arrived, health, result, prompt_id,
                    connVars, ops, monVars, outVars, cbSeqs, stageVars >>

\* ------------------------------------------------------------ pod_api_mock

\* The state of the sidecar, which the pod API mock (another program) leaves
\* alone.
sidecarVars == << arrived, admitted, loopBusy, health, pc, result, prompt_id, connVars,
                 ops, monVars, outVars, cbVars, stageVars, submits, staged_inputs >>

\* create_pod: the record is entered under the lock with containerId None
\* and the _boot thread is started; the handler answers at once.
create_pod(p) ==
    /\ bootPc[p] = "idle"
    /\ ~pods[p].present
    /\ termPc[p] = "idle"
    /\ pods' = [pods EXCEPT ![p] = PodRecord("None", "STARTING")]
    /\ bootPc' = [bootPc EXCEPT ![p] = "start"]
    /\ UNCHANGED << sidecarVars, containers, termPc, termPod >>

\* _boot, updates = _start_container(...): docker run gives the container,
\* or raises and leaves none.
boot_start_container(p) ==
    /\ bootPc[p] = "start"
    /\ \/ /\ containers' = [containers EXCEPT ![p] = "running"]
          /\ bootPc' = [bootPc EXCEPT ![p] = "update"]
       \/ /\ bootPc' = [bootPc EXCEPT ![p] = "except"]
          /\ UNCHANGED containers
    /\ UNCHANGED << sidecarVars, pods, termPc, termPod >>

\* _boot, with _lock: _pods[pod_id].update(updates): a KeyError when the
\* record is gone, which the except clause of _boot catches.
boot_update(p) ==
    /\ bootPc[p] = "update"
    /\ IF pods[p].present
       THEN /\ pods' = [pods EXCEPT ![p] = PodRecord("c", "RUNNING")]
            /\ bootPc' = [bootPc EXCEPT ![p] = "done"]
       ELSE /\ bootPc' = [bootPc EXCEPT ![p] = "except"]
            /\ UNCHANGED pods
    /\ UNCHANGED << sidecarVars, containers, termPc, termPod >>

\* _boot, except Exception: with _lock: _pods[pod_id]["desiredStatus"] =
\* "EXITED": a KeyError when the record is gone, raised inside the handler,
\* so the thread ends with an unhandled exception.
boot_except(p) ==
    /\ bootPc[p] = "except"
    /\ IF pods[p].present
       THEN /\ pods' = [pods EXCEPT ![p].desiredStatus = "EXITED"]
            /\ bootPc' = [bootPc EXCEPT ![p] = "done"]
       ELSE /\ bootPc' = [bootPc EXCEPT ![p] = "died"]
            /\ UNCHANGED pods
    /\ UNCHANGED << sidecarVars, containers, termPc, termPod >>

\* terminate_pod, with _lock: pod = _pods.pop(pod_id, None); 404 when there
\* is no record.
terminate_pop(p) ==
    /\ termPc[p] \in {"idle", "404"}
    /\ termPod' = [termPod EXCEPT ![p] = pods[p]]
    /\ pods' = [pods EXCEPT ![p] = NoRecord]
    /\ termPc' = [termPc EXCEPT ![p] = IF pods[p].present THEN "popped" ELSE "404"]
    /\ UNCHANGED << sidecarVars, containers, bootPc >>

\* terminate_pod, the rest: if pod.get("containerId"): the container is
\* looked up and removed (NotFound is passed over); then the 204.
terminate_remove(p) ==
    /\ termPc[p] = "popped"
    /\ containers' = [containers EXCEPT ![p] =
                         IF termPod[p].containerId # "None" /\ @ = "running"
                         THEN "removed" ELSE @]
    /\ termPc' = [termPc EXCEPT ![p] = "done"]
    /\ UNCHANGED << sidecarVars, pods, bootPc, termPod >>

PodNext ==
    \E p \in PodIds :
        \/ create_pod(p)
        \/ boot_start_container(p)
        \/ boot_update(p)
        \/ boot_except(p)
        \/ terminate_pop(p)
        \/ terminate_remove(p)

PodSpec == Init /\ [][PodNext]_vars

\* ------------------------------------------------------------ specification

\* The steps of job j's own threads of control.
JobStep(j) ==
    \/ run_job_start(j)
    \/ cleanup(j)
    \/ check_server(j)
    \/ stage_images(j)
    \/ stage_downloads(j)
    \/ ws_connect(j)
    \/ queue_workflow(j)
    \/ monitor_recv(j)
    \/ monitor_timeout(j)
    \/ monitor_closed(j)
    \/ reconnect_probe(j)
    \/ reconnect_connect(j)
    \/ finally_close(j)
    \/ get_history(j)
    \/ collect_outputs(j)
    \/ fire_callback_begin(j)
    \/ fire_callback_attempt(j)

\* The steps of the clients, the engine and the network.
EnvStep(j) ==
    \/ post_run(j)
    \/ run(j)
    \/ EngineEmit(j)
    \/ ConnDrop(j)

\* One job alone on the worker: the only request is job 1's.
Solo == {1}

Next == \E j \in Solo : JobStep(j) \/ EnvStep(j)

Spec == Init /\ [][Next]_vars

\* The executor thread and the event loop keep running: a step of a job that
\* stays possible is taken.  Nothing obliges the engine to write a frame, the
\* network to fail or a client to submit.
FairSpec == Spec /\ \A j \in Solo : WF_vars(JobStep(j))

\* The same worker with clients that also ask GET /health.
LoopNext == Next \/ health_begin \/ health_end

LoopSpec == Init /\ [][LoopNext]_vars

\* Two clients' requests on one worker, in the stages in which two jobs share
\* the event loop and the engine's input directory.  The first request is
\* followed up to the submission of its workflow, and to its callback when
\* it failed before.
ConcStep(j) ==
    \/ post_run(j)
    \/ run(j)
    \/ run_job_start(j)
    \/ cleanup(j)
    \/ check_server(j)
    \/ stage_images(j)
    \/ stage_downloads(j)
    \/ ws_connect(j)
    \/ queue_workflow(j)
    \/ finally_close(j)
    \/ fire_callback_begin(j)
    \/ fire_callback_attempt(j)

\* The second request is followed through its admission, its cleanup and its
\* liveness check, and to its callback when one of these failed.
SecondStep(j) ==
    \/ post_run(j)
    \/ run(j)
    \/ run_job_start(j)
    \/ cleanup(j)
    \/ check_server(j)
    \/ fire_callback_begin(j)
    \/ fire_callback_attempt(j)

ConcNext == ConcStep(1) \/ SecondStep(2)

ConcSpec == Init /\ [][ConcNext]_vars

\* ------------------------------------------------------------------ claims

Returned(j) == pc[j] \in {"returned", "callback", "done"}

\* The callback bookkeeping of a job is that of at most one call of
\* fire_callback: none before the result is there, one when run_job is over,
\* made of 1..3 POSTs.
CallbackOnce ==
    \A j \in Jobs :
        /\ cbSeqs[j] <= 1
        /\ (cbSeqs[j] = 1) <=> (pc[j] \in {"callback", "done"})
        /\ cbSeqs[j] = 0 => cbAttempts[j] = 0
        /\ cbAttempts[j] <= 3
        /\ pc[j] = "done" => cbAttempts[j] >= 1 /\ result[j].status \in {"completed", "failed"}

\* C1: every job admitted by POST /run gets exactly one callback delivery
\* attempt sequence of 1 to 3 POSTs: never two, and never none, whichever
\* stages failed.
C1_ExactlyOneCallbackSequence ==
    /\ []CallbackOnce
    /\ \A j \in Jobs : (pc[j] = "task") ~> (pc[j] = "done" /\ cbSeqs[j] = 1)

\* C2: monitoring of a job always terminates, also when the completion or
\* error event of the job never arrives: the job leaves monitoring and gets to
\* its terminal result and callback.
C2_MonitoringTerminates ==
    \A j \in Jobs : Monitoring(j) ~> (~Monitoring(j) /\ Returned(j) /\ result[j] # NoResult)

\* C3: fire_callback makes at most 3 attempts for one payload, makes a
\* further attempt only after the last one failed (an exception, or a status
\* that is not below the error threshold), stops at the first attempt whose
\* status is below the threshold, and after 3 failed attempts returns
\* normally: run_job is over, the event loop is free, and the result
\* execute_job computed is what it was.
AttemptFailed(o) == o.exc \/ o.status >= ErrorThreshold

C3_CallbackState ==
    \A j \in Jobs :
        /\ cbAttempts[j] <= 3
        /\ pc[j] = "callback" /\ cbAttempts[j] > 0 => AttemptFailed(cbLast[j])
        /\ cbAttempts[j] > 0 /\ ~AttemptFailed(cbLast[j]) => pc[j] = "done"
        /\ cbAttempts[j] = 3 => pc[j] = "done" /\ loopBusy # j
        /\ pc[j] = "done" /\ AttemptFailed(cbLast[j]) => cbAttempts[j] = 3

C3_CallbackStep ==
    \A j \in Jobs :
        /\ cbAttempts'[j] # cbAttempts[j] =>
              /\ pc[j] = "callback"
              /\ cbAttempts'[j] = cbAttempts[j] + 1
              /\ cbAttempts[j] > 0 => AttemptFailed(cbLast[j])
        /\ pc[j] \in {"callback", "done"} => result'[j] = result[j]

C3_CallbackBoundedBestEffort == []C3_CallbackState /\ [][C3_CallbackStep]_vars

C3_Witness ==
    \E j \in Jobs :
        /\ pc[j] = "done" /\ cbAttempts[j] = 3 /\ cbLast[j].exc
        /\ result[j].status = "completed" /\ loopBusy = 0

\* C4: monitoring returns success only on a text frame that is an
\* "executing" event whose node is None or missing and whose prompt_id is the
\* job's handle; an "executing" event with a non-empty node is never the
\* frame monitoring succeeds on, whatever its prompt_id.
NodeEmpty(e) == e.data = "absent" \/ e.node \in {NoneV, Absent, ""}
IsExecuting(e) == e.frame = "text" /\ e.json = "object" /\ e.type = "executing"
IdMatches(e, j) == e.data = "mapping" /\ e.prompt_id = prompt_id[j] /\ prompt_id[j] = PromptOf(j)
Last(q) == q[Len(q)]

C4_CompletionOnlyOnEmptyNode ==
    \A j \in Jobs :
        /\ execution_done[j] => monitored[j] = "returned" /\ pc[j] # "monitor"
        /\ execution_done[j] /\ pc[j] = "finally" =>
              /\ recvLog[j] # << >>
              /\ IsExecuting(Last(recvLog[j]))
              /\ NodeEmpty(Last(recvLog[j]))
              /\ IdMatches(Last(recvLog[j]), j)
        /\ \A i \in 1..Len(recvLog[j]) :
              IsExecuting(recvLog[j][i]) /\ ~NodeEmpty(recvLog[j][i]) =>
                 ~(i = Len(recvLog[j]) /\ execution_done[j])

\* A progress event of the job's own handle was received and ignored, and the
\* completion event after it ended monitoring.
C4_Witness ==
    \E j \in Jobs :
        /\ pc[j] = "finally" /\ execution_done[j] /\ Len(recvLog[j]) = 2
        /\ recvLog[j][1] = Executing("mapping", "5", PromptOf(j))
        /\ recvLog[j][2] = Executing("mapping", NoneV, PromptOf(j))

\* C5: an "execution_error" event of the job's handle ends monitoring at
\* that event with exactly one error entry (node id, node type, exception
\* message); no frame queued behind it is received, and what monitoring
\* returned does not change afterwards.
IsOwnError(e, j) ==
    e.frame = "text" /\ e.json = "object" /\ e.type = "execution_error" /\ IdMatches(e, j)

C5_ErrorState ==
    \A j \in Jobs :
        /\ \A i \in 1..Len(recvLog[j]) :
              IsOwnError(recvLog[j][i], j) =>
                 /\ i = Len(recvLog[j])
                 /\ pc[j] = "finally" /\ monitored[j] = "returned"
                 /\ ~execution_done[j]
                 /\ exec_errors[j] =
                       << [kind |-> "node_error", name |-> recvLog[j][i].node_id,
                           node_type |-> recvLog[j][i].node_type,
                           message |-> recvLog[j][i].exception_message] >>
        /\ Len(exec_errors[j]) <= 1

C5_ErrorStep ==
    \A j \in Jobs :
        monitored[j] = "returned" =>
           /\ execution_done'[j] = execution_done[j]
           /\ exec_errors'[j] = exec_errors[j]
           /\ monitored'[j] = monitored[j]
           /\ recvLog'[j] \in {recvLog[j], << >>}
           /\ pc'[j] # "monitor"

C5_ErrorEndsMonitoring == []C5_ErrorState /\ [][C5_ErrorStep]_vars

\* The error event was received while the completion event was queued
\* behind it; monitoring has returned and the completion event is unread.
C5_Witness ==
    \E j \in Jobs :
        /\ pc[j] = "finally" /\ monitored[j] = "returned" /\ ~execution_done[j]
        /\ Len(exec_errors[j]) = 1
        /\ recvLog[j] = << ExecutionError(PromptOf(j)) >>
        /\ stream[j] = << Executing("mapping", NoneV, PromptOf(j)) >>

\* C6: a completion or error event whose prompt_id is not the job's handle
\* (an event of another job on this stream) is ignored: it does not end
\* monitoring and adds no error entry; monitoring goes on receiving, and only
\* the loss of the connection can end it before the job's own event comes.
IsForeign(e, j) ==
    /\ e.frame = "text" /\ e.json = "object" /\ e.data = "mapping"
    /\ e.type \in {"executing", "execution_error"}
    /\ e.prompt_id # prompt_id[j]

C6_ForeignEventsIgnored ==
    \A j \in Jobs :
        /\ \A i \in 1..Len(recvLog[j]) :
              IsForeign(recvLog[j][i], j) /\ i = Len(recvLog[j]) =>
                 /\ monitored[j] # "returned"
                 /\ ~execution_done[j]
                 /\ exec_errors[j] = << >>
                 /\ ~Monitoring(j) => monitored[j] = "raised" /\ lastRecv[j] = "closed"
        /\ pc[j] = "finally" /\ exec_errors[j] # << >> =>
              recvLog[j] # << >> /\ IsOwnError(Last(recvLog[j]), j)

\* A completion event of another job was received and ignored, and the job's
\* own completion event after it ended monitoring.
C6_Witness ==
    \E j \in Jobs :
        /\ pc[j] = "finally" /\ execution_done[j]
        /\ recvLog[j] = << Executing("mapping", NoneV, OtherPrompt(j)),
                           Executing("mapping", NoneV, PromptOf(j)) >>

\* C7: a frame with an undecodable payload (a binary frame, text that is not
\* JSON, JSON that is no event object with a data mapping) is ignored: having
\* received it, monitoring is still going on and the job has not failed.
Undecodable(e) ==
    e.frame # "text" \/ e.json # "object" \/ e.data \in {"null", "absent"}

C7_UndecodableIgnored ==
    \A j \in Jobs :
        recvLog[j] # << >> /\ Undecodable(Last(recvLog[j])) /\ lastRecv[j] = "frame" =>
           /\ pc[j] = "monitor"
           /\ monitored[j] = "no"
           /\ result[j] = NoResult

\* C8: when the reconnect after a connection loss succeeds on its N-th
\* attempt (N - 1 failed connects, the liveness probe succeeding each time),
\* monitoring resumes on the new socket, connected with the same clientId,
\* and a completion event received afterwards makes monitoring return
\* success: the job goes on to collection and is completed unless the history
\* lookup fails or collection ends with errors and no artifact.
CollectionFailure(r) ==
    /\ r.status = "failed"
    /\ r.error = "Job produced no output"
    /\ r.details # << >>
    /\ \A i \in 1..Len(r.details) : r.details[i].kind \in {"fetch_failed", "upload_failed"}

C8_ReconnectState ==
    \A j \in Jobs :
        /\ rews[j] = "connected" =>
              rewsClient[j] = client_id[j] /\ client_id[j] = ClientOf(j) /\ ws[j] = "closed"
        /\ /\ rews[j] # "none"
           /\ attempt[j] = WEBSOCKET_RECONNECT_ATTEMPTS - 1
           /\ lastRecv[j] = "frame"
           /\ execution_done[j]
           => /\ monitored[j] = "returned"
              /\ exec_errors[j] = << >>
              /\ ~Returned(j) => result[j] = NoResult
              /\ Returned(j) =>
                    /\ "history" \in ops[j]
                    /\ IF "outputs" \in ops[j]
                       THEN result[j].status = "completed" \/ CollectionFailure(result[j])
                       ELSE result[j] \in {Failed("HTTPError"), Failed("Prompt not found in history")}

C8_ReconnectStep ==
    \A j \in Jobs :
        pc[j] = "reconnect_connect" /\ pc'[j] # pc[j] =>
           IF attempt'[j] = attempt[j]
           THEN /\ pc'[j] = "monitor"
                /\ rews'[j] = "connected" /\ alive'[j] /\ stream'[j] = << >>
                /\ result'[j] = NoResult /\ monitored'[j] = "no"
           ELSE /\ pc'[j] = "reconnect"
                /\ attempt'[j] = attempt[j] + 1
                /\ result'[j] = NoResult /\ monitored'[j] = "no"

C8_ReconnectOnLastAttemptResumes == []C8_ReconnectState /\ [][C8_ReconnectStep]_vars

C8_Witness ==
    \E j \in Jobs :
        /\ pc[j] = "done" /\ result[j].status = "completed"
        /\ drops[j] = 1 /\ rews[j] = "connected"
        /\ attempt[j] = WEBSOCKET_RECONNECT_ATTEMPTS - 1
        /\ lastRecv[j] = "frame" /\ execution_done[j]

\* C9: after a connection loss and N failed reconnect attempts no further
\* attempt is made: reconnect_websocket raises, the exception leaves the
\* monitoring loop, and the job's result is failed with the
\* reconnect-exhausted error, without history lookup or collection.
C9_ReconnectExhaustionFails ==
    \A j \in Jobs :
        /\ attempt[j] <= WEBSOCKET_RECONNECT_ATTEMPTS
        /\ pc[j] = "reconnect_connect" => attempt[j] < WEBSOCKET_RECONNECT_ATTEMPTS
        /\ attempt[j] = WEBSOCKET_RECONNECT_ATTEMPTS =>
              /\ pc[j] \in {"reconnect", "finally", "returned", "callback", "done"}
              /\ pc[j] # "reconnect" =>
                    /\ monitored[j] = "raised"
                    /\ result[j] = Failed("Failed to reconnect after N attempts")
                    /\ ~execution_done[j]
                    /\ ops[j] \cap {"history", "outputs"} = {}

C9_Witness ==
    \E j \in Jobs :
        /\ pc[j] = "done" /\ attempt[j] = WEBSOCKET_RECONNECT_ATTEMPTS
        /\ result[j].status = "failed"
        /\ result[j].error = "Failed to reconnect after N attempts"

\* C10: collection classifies every artifact of the manifest once: the
\* result holds an entry only for a named artifact that is not of kind temp;
\* the entry of an artifact whose name is an output target is "uploaded" and
\* has no data; the entry of an artifact without target holds base64 data
\* that decodes to the bytes fetched for it; every artifact fetched (and
\* pushed, if it has a target) has its entry; no name is entered both ways.
Collected(j) == Returned(j) /\ "outputs" \in ops[j]
Entries(j) == IF result[j].status = "completed" THEN result[j].images ELSE << >>
HasTarget(j, f) == \E i \in 1..Len(upload_urls[j]) : upload_urls[j][i].name = f

C10_OutputClassification ==
    \A j \in Jobs :
        Collected(j) =>
           LET vis == visit_order(manifest[j])
               img == Entries(j)
               oc == outcomes[j]
               names == {vis[i].filename : i \in 1..Len(vis)}
           IN  /\ \A k \in 1..Len(img) :
                     /\ img[k].filename # ""
                     /\ \E i \in 1..Len(vis) :
                           /\ vis[i].filename = img[k].filename
                           /\ vis[i].type # "temp"
                           /\ IF HasTarget(j, img[k].filename)
                              THEN /\ img[k].type = "uploaded"
                                   /\ "data" \notin img[k].keys /\ img[k].data = << >>
                                   /\ oc[i].push = "ok"
                              ELSE /\ img[k].type = "base64"
                                   /\ "data" \in img[k].keys
                                   /\ b64decode(img[k].data) =
                                         (IF oc[i].fetch = "ok" THEN FileBytes(vis[i].filename)
                                          ELSE ErrorBody)
               /\ \A f \in names :
                     Cardinality({k \in 1..Len(img) : img[k].filename = f}) =
                     Cardinality({i \in 1..Len(vis) :
                                    /\ vis[i].filename = f /\ f # "" /\ vis[i].type # "temp"
                                    /\ oc[i].fetch \in {"ok", "error_response"}
                                    /\ HasTarget(j, f) => oc[i].push = "ok"})
               /\ \A k1, k2 \in 1..Len(img) :
                     img[k1].filename = img[k2].filename => img[k1].type = img[k2].type

\* One result with an uploaded artifact and an inlined one, from a manifest
\* that also lists a temp file.
C10_Witness ==
    \E j \in Jobs :
        /\ Collected(j) /\ result[j].status = "completed"
        /\ \E k \in 1..Len(result[j].images) : result[j].images[k].type = "uploaded"
        /\ \E k \in 1..Len(result[j].images) : result[j].images[k].type = "base64"
        /\ \E i \in 1..Len(visit_order(manifest[j])) : visit_order(manifest[j])[i].type = "temp"

\* C11: in collection, an artifact whose fetch failed (an exception, or an
\* error response of the engine) or whose push to its target failed has a
\* warning and no entry, uploaded or inlined, in the result; every other
\* artifact of the manifest that is not skipped has its entry.
OutputFailures(j) ==
    LET errs == IF result[j].status = "completed" THEN result[j].warnings
                ELSE result[j].details
    IN  { errs[k].name : k \in { n \in 1..Len(errs) :
                                   errs[n].kind \in {"fetch_failed", "upload_failed"} } }
EntryNames(j) == { Entries(j)[k].filename : k \in 1..Len(Entries(j)) }

FailureIsWarning(j, failed(_)) ==
    \A i \in 1..Len(visit_order(manifest[j])) :
        LET d == visit_order(manifest[j])[i]
        IN  ~Skipped(d) =>
               IF failed(outcomes[j][i])
               THEN d.filename \in OutputFailures(j) /\ d.filename \notin EntryNames(j)
               ELSE d.filename \in EntryNames(j) /\ d.filename \notin OutputFailures(j)

FetchOrPushFailed(o) == o.fetch \in {"exception", "error_response"} \/ o.push = "fail"

C11_FetchPushFailureIsWarning ==
    \A j \in Jobs : Collected(j) => FailureIsWarning(j, FetchOrPushFailed)

\* What holds of the code: the same with a fetch counted as failed only when
\* the request raised.
RaisedFetchOrPushFailed(o) == o.fetch = "exception" \/ o.push = "fail"

C11_RaisedFailureIsWarning ==
    \A j \in Jobs : Collected(j) => FailureIsWarning(j, RaisedFetchOrPushFailed)

\* C12: every result execute_job returns has status completed or failed; a
\* failed result holds an error description; after collection, a result with
\* no artifact and at least one recorded error (of the engine, of a fetch, of
\* a push) is failed with these errors as details, and every other result is
\* completed with its artifacts and with the errors as warnings.
RecordedErrors(j) ==
    Len(exec_errors[j]) +
    Cardinality({ i \in 1..Len(outcomes[j]) :
                     outcomes[j][i].fetch = "exception" \/ outcomes[j][i].push = "fail" })
Artifacts(j) ==
    Cardinality({ i \in 1..Len(outcomes[j]) :
                     /\ outcomes[j][i].fetch \in {"ok", "error_response"}
                     /\ outcomes[j][i].push \in {"ok", "-"} })

C12_JobResultInvariant ==
    \A j \in Jobs :
        /\ Returned(j) =>
              /\ result[j].status \in {"completed", "failed"}
              /\ result[j].status = "failed" =>
                    /\ "error" \in result[j].keys /\ result[j].error # ""
                    /\ result[j].images = << >>
              /\ result[j].status = "completed" =>
                    /\ result[j].keys \cap {"error", "details"} = {}
                    /\ "images" \in result[j].keys
                    /\ result[j].images = << >> => result[j].warnings = << >>
        /\ Collected(j) =>
              IF Artifacts(j) = 0 /\ RecordedErrors(j) > 0
              THEN /\ result[j].status = "failed"
                   /\ "details" \in result[j].keys
                   /\ Len(result[j].details) = RecordedErrors(j)
              ELSE /\ result[j].status = "completed"
                   /\ Len(result[j].images) = Artifacts(j)
                   /\ Len(result[j].warnings) = RecordedErrors(j)
                   /\ ("warnings" \in result[j].keys) <=> (RecordedErrors(j) > 0)

\* An error event of the engine and an artifact whose fetch raised: no
\* artifact, two errors, the result is failed with both as details.
C12_Witness ==
    \E j \in Jobs :
        /\ Collected(j) /\ pc[j] = "done"
        /\ result[j].status = "failed" /\ result[j].error = "Job produced no output"
        /\ Len(result[j].details) = 2 /\ Len(exec_errors[j]) = 1

\* C13: when monitoring ended on an "execution_error" event of the job's
\* handle, the result execute_job returns is failed, whatever the manifest of
\* the history holds.
EndedOnErrorEvent(j) == monitored[j] = "returned" /\ ~execution_done[j] /\ exec_errors[j] # << >>

C13_ErrorEventFailsJob ==
    \A j \in Jobs : Returned(j) /\ EndedOnErrorEvent(j) => result[j].status = "failed"

\* C14: staging tries every input asset of the request, the inline images
\* and the remote files alike, also after an asset failed; when at least one
\* asset failed the job is failed, the workflow is not submitted, and details
\* holds one entry for each failed asset and none for any other.
StagingOver(j) ==
    "images" \in ops[j] /\ pc[j] \notin {"images", "downloads"} /\ "connect" \notin ops[j]

FailedImages(j) ==
    { i \in 1..Len(imgOutcomes[j]) :
         images[j][i].data = "invalid" \/ imgOutcomes[j][i] = "fail" }
FailedDownloads(j, failures) ==
    { i \in 1..Len(dlOutcomes[j]) : dlOutcomes[j][i] \in failures }
DetailNames(j) == { result[j].details[k].name : k \in 1..Len(result[j].details) }

StagingFailureReported(j, failures) ==
    LET bad == { images[j][i].name : i \in FailedImages(j) } \cup
               { download_urls[j][i].name : i \in FailedDownloads(j, failures) }
        n == Cardinality(FailedImages(j)) + Cardinality(FailedDownloads(j, failures))
    IN  IF n > 0
        THEN /\ Returned(j) /\ result[j].status = "failed"
             /\ ops[j] \cap {"connect", "queue", "monitor"} = {}
             /\ Len(result[j].details) = n
             /\ DetailNames(j) = bad
        ELSE pc[j] = "connect" /\ result[j] = NoResult

C14_StagingAttemptsAll ==
    \A j \in Jobs :
        StagingOver(j) =>
           /\ staged[j] = Names(images[j]) \o Names(download_urls[j])
           /\ StagingFailureReported(j, {"fail", "error_response"})

\* What holds of the code: each of the two loops tries every item of its own
\* list and reports the items whose request raised; the remote files are
\* tried only when no image failed.
C14_EachListAttemptedWhole ==
    \A j \in Jobs :
        StagingOver(j) =>
           /\ staged[j] = IF FailedImages(j) # {} THEN Names(images[j])
                           ELSE Names(images[j]) \o Names(download_urls[j])
           /\ StagingFailureReported(j, {"fail"})

\* C15: the stages of one job run strictly one after the other: the workflow
\* is not submitted before both staging loops are over, no frame is received
\* before submission has given the handle, history and collection do not
\* start before monitoring has returned, and fire_callback is not called
\* before execute_job has returned its result; the job never goes back to an
\* earlier stage.
Stage(p) ==
    CASE p = "idle" -> 0
      [] p = "task" -> 1
      [] p = "cleanup" -> 2
      [] p = "check_server" -> 3
      [] p = "images" -> 4
      [] p = "downloads" -> 5
      [] p = "connect" -> 6
      [] p = "queue" -> 7
      [] p \in {"monitor", "reconnect", "reconnect_connect"} -> 8
      [] p = "finally" -> 9
      [] p = "history" -> 10
      [] p = "outputs" -> 11
      [] p = "returned" -> 12
      [] p = "callback" -> 13
      [] OTHER -> 14

C15_StageState ==
    \A j \in Jobs :
        /\ "queue" \in ops[j] =>
              {"images", "downloads"} \subseteq ops[j] /\ Stage(pc[j]) >= 7
        /\ "monitor" \in ops[j] \/ recvLog[j] # << >> =>
              "queue" \in ops[j] /\ prompt_id[j] = PromptOf(j) /\ Stage(pc[j]) >= 8
        /\ ops[j] \cap {"history", "outputs"} # {} =>
              monitored[j] = "returned" /\ Stage(pc[j]) >= 10
        /\ "outputs" \in ops[j] => "history" \in ops[j]
        /\ "callback" \in ops[j] \/ cbSeqs[j] > 0 \/ cbAttempts[j] > 0 =>
              /\ result[j].status \in {"completed", "failed"}
              /\ Stage(pc[j]) >= 13

C15_StageStep ==
    \A j \in Jobs :
        /\ Stage(pc'[j]) >= Stage(pc[j])
        /\ ops[j] \subseteq ops'[j]
        /\ recvLog'[j] # recvLog[j] /\ recvLog'[j] # << >> => Stage(pc[j]) = 8
        /\ Stage(pc[j]) >= 12 => result'[j] = result[j]

C15_StagesSequential == []C15_StageState /\ [][C15_StageStep]_vars

\* A job that went through every stage and was called back.
C15_Witness ==
    \E j \in Jobs :
        /\ pc[j] = "done" /\ result[j].status = "completed"
        /\ {"cleanup", "check_server", "images", "downloads", "connect", "queue",
             "monitor", "reconnect", "history", "outputs", "callback"} \subseteq ops[j]

\* C16: the artifacts of the result are in the order in which the manifest
\* of the engine enumerates them: node after node, and within a node the
\* media-kind lists in the order the manifest gives them, whatever kinds the
\* node holds.
RECURSIVE FilesOf(_)
FilesOf(node_output) ==
    IF node_output = << >> THEN << >>
    ELSE node_output[1].files \o FilesOf(Tail(node_output))

RECURSIVE ManifestOrder(_)
ManifestOrder(outputs) ==
    IF outputs = << >> THEN << >>
    ELSE FilesOf(outputs[1]) \o ManifestOrder(Tail(outputs))

\* The names, in the order of the manifest, of the artifacts the result holds.
RECURSIVE Reported(_, _)
Reported(files, names) ==
    IF files = << >> THEN << >>
    ELSE (IF ~Skipped(files[1]) /\ files[1].filename \in names
          THEN << files[1].filename >> ELSE << >>)
         \o Reported(Tail(files), names)

C16_ManifestOrderKept ==
    \A j \in Jobs :
        Collected(j) =>
           [k \in 1..Len(Entries(j)) |-> Entries(j)[k].filename] =
           Reported(ManifestOrder(manifest[j]), EntryNames(j))

\* What holds of the code: the order is that of the nodes and, within a
\* node, always "videos", "gifs", "images".
C16_VisitOrderKept ==
    \A j \in Jobs :
        Collected(j) =>
           [k \in 1..Len(Entries(j)) |-> Entries(j)[k].filename] =
           Reported(visit_order(manifest[j]), EntryNames(j))

\* C17: POST /run is acknowledged without waiting for any stage of its job,
\* the engine I/O of a job runs on the executor thread and does not hold the
\* event loop, and the event loop, which accepts and acknowledges the
\* requests, is never inside a request to the engine while a POST /run waits.
OnExecutor(j) == Stage(pc[j]) \in 2..11

C17_JobIOOffTheLoop ==
    \A j \in Jobs :
        /\ pc[j] = "task" => ops[j] = {} /\ result[j] = NoResult /\ prompt_id[j] = ""
        /\ OnExecutor(j) => loopBusy # j
        /\ loopBusy = j => pc[j] = "callback"

C17_AckNeverBlocksOnEngineIO ==
    /\ C17_JobIOOffTheLoop
    /\ ~(arrived > admitted /\ health = "probing")

\* C18: in reconnect_websocket every streaming connect comes right after a
\* liveness GET of the same pass that succeeded; when the GET finds the
\* engine unreachable no connect is made for it, nor any later: the function
\* raises and the job fails.
C18_ProbeState ==
    \A j \in Jobs :
        /\ pc[j] = "reconnect_connect" => probe[j] = "ok"
        /\ probe[j] = "ok" => pc[j] = "reconnect_connect"
        /\ probe[j] = "unreachable" =>
              /\ ~Monitoring(j) /\ monitored[j] = "raised"
              /\ result[j] = Failed("ComfyUI unreachable during reconnect")
              /\ ops[j] \cap {"history", "outputs"} = {}

ConnectAttempted(j) ==
    \/ rews'[j] = "connected" /\ (rews[j] # "connected" \/ pc[j] = "reconnect_connect")
    \/ attempt'[j] = attempt[j] + 1

C18_ProbeStep ==
    \A j \in Jobs :
        /\ ConnectAttempted(j) =>
              pc[j] = "reconnect_connect" /\ probe[j] = "ok" /\ probe'[j] = "none"
        /\ probe'[j] = "ok" /\ probe[j] # "ok" => pc[j] = "reconnect"
        /\ probe[j] = "unreachable" =>
              /\ probe'[j] = "unreachable"
              /\ rews'[j] = rews[j] /\ attempt'[j] = attempt[j] /\ ws'[j] # "connected"

C18_ConnectOnlyAfterLiveProbe == []C18_ProbeState /\ [][C18_ProbeStep]_vars

\* Two passes whose probe succeeded and whose connect failed, then a pass
\* whose probe found the engine unreachable.
C18_Witness ==
    \E j \in Jobs :
        /\ pc[j] = "done" /\ probe[j] = "unreachable" /\ attempt[j] = 2
        /\ rews[j] = "none" /\ result[j].status = "failed"

\* C19: a job has at most one connected stream socket at any time, and a new
\* connection is attempted only after recv() on the previous one raised
\* connection-closed (which leaves that socket closed), never after a
\* receive timeout or a frame that was ignored.
Connected(j) == { s \in {"ws", "rews"} : IF s = "ws" THEN ws[j] = "connected"
                                         ELSE rews[j] = "connected" }

C19_ConnState ==
    \A j \in Jobs :
        /\ Cardinality(Connected(j)) <= 1
        /\ pc[j] \in {"reconnect", "reconnect_connect"} =>
              Connected(j) = {} /\ lastRecv[j] = "closed"

C19_ConnStep ==
    \A j \in Jobs :
        /\ pc[j] = "monitor" /\ pc'[j] = "reconnect" =>
              /\ lastRecv'[j] = "closed"
              /\ ws'[j] # "connected" /\ rews'[j] # "connected"
        /\ pc[j] = "monitor" /\ lastRecv'[j] \in {"timeout", "frame"} =>
              /\ pc'[j] \notin {"reconnect", "reconnect_connect"}
              /\ ws'[j] = ws[j] /\ rews'[j] = rews[j] /\ attempt'[j] = attempt[j]
        /\ rews'[j] = "connected" /\ pc[j] = "reconnect_connect" => Connected(j) = {}
        /\ ws'[j] = "connected" /\ ws[j] # "connected" =>
              pc[j] = "connect" /\ ws[j] = "none" /\ rews[j] = "none"

C19_OneConnectionPerJob == []C19_ConnState /\ [][C19_ConnStep]_vars

\* After a reconnect a receive timed out on the new socket: the old socket
\* is closed, the new one is the only one, and no connection was attempted.
C19_Witness ==
    \E j \in Jobs :
        /\ pc[j] = "monitor" /\ lastRecv[j] = "timeout" /\ drops[j] = 1
        /\ ws[j] = "closed" /\ rews[j] = "connected" /\ Connected(j) = {"rews"}

\* C20: once a stage of a job has failed (engine unreachable, a staging
\* failure, a submission failure, monitoring ended by an error event or by a
\* failed reconnect, the handle missing from the history) no later stage is
\* entered for the job, and the result handed to fire_callback is failed.
Later(stage) ==
    CASE stage = "check_server" -> {"images", "downloads", "connect", "queue", "monitor",
                                    "history", "outputs"}
      [] stage = "staging" -> {"connect", "queue", "monitor", "history", "outputs"}
      [] stage = "queue" -> {"monitor", "history", "outputs"}
      [] stage = "monitor" -> {"history", "outputs"}
      [] OTHER -> {"outputs"}

ShortCircuited(j, stage) ==
    /\ ops[j] \cap Later(stage) = {}
    /\ Returned(j) => result[j].status = "failed"

OtherFailuresShortCircuit(j) ==
    /\ result[j] = Failed("ComfyUI not reachable") => ShortCircuited(j, "check_server")
    /\ result[j].error \in {"Image upload failed", "File download/upload failed"} =>
          ShortCircuited(j, "staging")
    /\ "queue" \in ops[j] /\ prompt_id[j] = "" /\ pc[j] # "queue" =>
          ShortCircuited(j, "queue")
    /\ monitored[j] = "raised" => ShortCircuited(j, "monitor")
    /\ result[j] = Failed("Prompt not found in history") => ShortCircuited(j, "history")

C20_FailureShortCircuits ==
    \A j \in Jobs :
        /\ OtherFailuresShortCircuit(j)
        /\ EndedOnErrorEvent(j) => ShortCircuited(j, "monitor")

\* What holds of the code: every failure but the error event short-circuits.
C20_OtherFailuresShortCircuit == \A j \in Jobs : OtherFailuresShortCircuit(j)

\* C21: the workflow is submitted at most once per job; a rejection of the
\* workflow (400), a request that failed and a 2xx answer without handle each
\* end the job as failed with an error description of their own, no frame
\* having been received and no history or artifact read, and the stream
\* socket opened for the job is closed when execute_job returns.
SubmitFailure(j) == submits[j] # << >> /\ submits[j][1] # "handle"

C21_SubmitState ==
    \A j \in Jobs :
        /\ Len(submits[j]) <= 1
        /\ (submits[j] # << >>) <=> ("queue" \in ops[j])
        /\ SubmitFailure(j) =>
              /\ pc[j] \in {"finally", "returned", "callback", "done"}
              /\ prompt_id[j] = ""
              /\ result[j].status = "failed" /\ result[j].keys = {"error"}
              /\ submits[j][1] = "400" => result[j].error = "Workflow validation failed"
              /\ submits[j][1] = "transport" => result[j].error = "ConnectionError"
              /\ submits[j][1] = "no_handle" => result[j].error = "No prompt_id in response"
              /\ submits[j][1] = "http_error" => result[j].error = "HTTPError"
              /\ ops[j] \cap {"monitor", "reconnect", "history", "outputs"} = {}
              /\ recvLog[j] = << >> /\ manifest[j] = << >> /\ outcomes[j] = << >>
              /\ rews[j] = "none"
              /\ Returned(j) => ws[j] = "closed"

C21_SubmitStep ==
    \A j \in Jobs :
        /\ submits'[j] # submits[j] =>
              pc[j] = "queue" /\ submits[j] = << >> /\ Len(submits'[j]) = 1
        /\ SubmitFailure(j) => result'[j] = result[j] /\ pc'[j] # "queue"

C21_SubmitOnceAndFailDistinctly == []C21_SubmitState /\ [][C21_SubmitStep]_vars

\* A job whose workflow the engine rejected, called back as failed.
C21_Witness ==
    \E j \in Jobs :
        /\ pc[j] = "done" /\ submits[j] = << "400" >>
        /\ result[j] = Failed("Workflow validation failed") /\ ws[j] = "closed"

\* C22: the cleanup of the scratch directories runs before staging and
\* submission, and an error raised in it (a directory that cannot be listed,
\* an entry that cannot be removed) does not abort the job: after cleanup the
\* job always goes on to the liveness check and is never failed by cleanup.
C22_CleanupNeverAborts ==
    \A j \in Jobs :
        /\ ops[j] \cap {"check_server", "images", "downloads", "queue"} # {} =>
              "cleanup" \in ops[j]
        /\ Stage(pc[j]) > Stage("cleanup") =>
              /\ pc[j] = "check_server" \/ "check_server" \in ops[j]
              /\ result[j].error # "OSError: listdir"

\* What holds of the code: cleanup comes first, and a job that is past it
\* without the liveness check is one whose os.listdir raised.
C22_OnlyListdirAborts ==
    \A j \in Jobs :
        /\ ops[j] \cap {"check_server", "images", "downloads", "queue"} # {} =>
              "cleanup" \in ops[j]
        /\ Stage(pc[j]) > Stage("cleanup") /\ pc[j] # "check_server"
              /\ "check_server" \notin ops[j] =>
              result[j] = Failed("OSError: listdir") /\ ops[j] \subseteq {"cleanup", "callback"}

\* C25: once the execution of a job has returned its terminal result, no
\* stream connection opened for the job is still open, neither the initial
\* one nor one made by a successful reconnect.
C25_NoOpenConnectionAfterReturn ==
    \A j \in Jobs :
        Returned(j) => ws[j] # "connected" /\ rews[j] # "connected"

\* What holds of the code: the finally clause closes the initial connection.
C25_InitialConnectionClosed ==
    \A j \in Jobs : Returned(j) => ws[j] # "connected"

\* C26: in the pod API mock, after DELETE /pods/{id} has returned 204 and the
\* boot thread of the pod has finished, no container started for the pod
\* remains, the registry holds no record of it, and the boot thread has not
\* failed on the missing record.
C26_TerminateRemovesContainer ==
    \A p \in PodIds :
        termPc[p] = "done" /\ bootPc[p] \in {"done", "died"} =>
            /\ containers[p] # "running"
            /\ ~pods[p].present
            /\ bootPc[p] # "died"

\* What holds of the code: the record is gone after a terminate, and a
\* terminate that found the container id in the record removed the container.
C26_RecordGoneAndKnownContainerRemoved ==
    \A p \in PodIds :
        termPc[p] = "done" =>
            /\ ~pods[p].present
            /\ termPod[p].containerId # "None" => containers[p] # "running"

\* C23: the worker has no single-flight guard: a POST /run that waits is
\* admitted as soon as the event loop is free, whatever stage the other jobs
\* are in, and the cleanup of one job can empty /comfyui/input of the files
\* another job has staged and not yet submitted.
C23_NoSingleFlight ==
    /\ \A j \in Jobs :
          LoopFree /\ arrived > admitted /\ j = admitted + 1 => ENABLED run(j)
    /\ \A j \in Jobs : \A k \in Jobs \ {j} :
          pc[k] = "cleanup" => ENABLED (cleanup(k) /\ staged_inputs' \cap InputsOf(j) = {})

\* Job 1 has staged an image and has not submitted its workflow, job 2 was
\* admitted meanwhile, and job 2's cleanup has removed job 1's staged file.
C23_Witness ==
    /\ pc[1] \in {"downloads", "connect"}
    /\ \E i \in DOMAIN imgOutcomes[1] :
          imgOutcomes[1][i] = "ok" /\ images[1][i].data # "invalid"
    /\ InputsOf(1) = {}
    /\ "cleanup" \in ops[2]
    /\ admitted = 2

\* C24: while the callback of one job is being delivered (its POSTs and the
\* sleeps between them), what the worker owes the other jobs is not held up:
\* a POST /run that waits can be admitted and acknowledged, an admitted job
\* can start executing, and a job whose result is there can start its own
\* callback.
C24_CallbackNeverStallsOthers ==
    \A j \in Jobs : \A k \in Jobs \ {j} :
        pc[j] = "callback" /\ health = "idle" =>
            /\ arrived > admitted /\ k = admitted + 1 => ENABLED run(k)
            /\ pc[k] = "task" => ENABLED run_job_start(k)
            /\ pc[k] = "returned" => ENABLED fire_callback_begin(k)

\* What holds of the code: the callbacks of two jobs never overlap, and the
\* event loop is held by the job whose callback is being delivered.
C24_CallbacksSerialised ==
    \A j \in Jobs :
        pc[j] = "callback" =>
            /\ loopBusy = j
            /\ \A k \in Jobs \ {j} : pc[k] # "callback"

====
